---- MODULE Spec2Model ----
(***************************************************************************)
(* Sharded vocabulary embedding and logits projection of vllm-ascend       *)
(* (vllm_ascend/ops/vocab_parallel_embedding.py).                          *)
(*                                                                         *)
(* Three specifications share the state:                                   *)
(*   Spec        construction of a table on every rank of its group and    *)
(*               the masked-lookup codec applied to single ids;            *)
(*   FwdSpec     construction followed by one forward step of the group    *)
(*               (forward and _forward_normal as entry points);            *)
(*   LogitsSpec  construction of an LM head followed by one _get_logits    *)
(*               step of the group.                                        *)
(* Ranks are 0 .. world_size-1.  Tensors are sequences (1-based).          *)
(***************************************************************************)
EXTENDS Integers, Sequences, FiniteSets, TLC

\* ---------------------------------------------------------------- bounds
\* Spec: num_embeddings in 1..MaxVocab, padding_size in 1..MaxPadding,
\* group sizes in 1..MaxWorld.
MaxVocab == 5
MaxPadding == 3
MaxWorld == 3
\* FwdSpec: num_embeddings in 1..FwdMaxVocab, padding_size in
\* 1..FwdMaxPadding, embedding_dim in 1..FwdMaxDim, group sizes in
\* 1..FwdMaxWorld, at most FwdMaxTokens input ids over the whole group.
FwdMaxVocab == 3
FwdMaxPadding == 2
FwdMaxDim == 2
FwdMaxWorld == 2
FwdMaxTokens == 2

Max(a, b) == IF a >= b THEN a ELSE b
Min(a, b) == IF a <= b THEN a ELSE b

\* Python's bool used as an int (bool * int, int * bool).
B2I(b) == IF b THEN 1 ELSE 0

RECURSIVE SumSeq(_)
SumSeq(s) == IF s = <<>> THEN 0 ELSE Head(s) + SumSeq(Tail(s))

RECURSIVE Flatten(_)
\* torch.cat(list, dim=0) of a list of 1-D tensors
Flatten(ss) == IF ss = <<>> THEN <<>> ELSE Head(ss) \o Flatten(Tail(ss))

\* ------------------------------------------------- environment and groups
\* The process-group bootstrap: whether the head ("lmhead") group feature is
\* on, and the sizes of the tensor-parallel group and of the head group.
\* The head group exists only when the feature is on, and the feature is
\* for the pure data-parallel scenario (tensor-parallel size 1).
Envs(W) ==
  { e \in [lmhead_tp : BOOLEAN, tp_world : 1..W, lmhead_world : 1..W] :
      /\ e.lmhead_tp => e.tp_world = 1
      /\ ~e.lmhead_tp => e.lmhead_world = 1 }

lmhead_tp_enable(e) == e.lmhead_tp

Prefixes == {"lm_head", "embed_tokens", "other"}

\* __init__, lines 84-89: the communication group of the table
CommGroupOf(e, prefix) ==
  IF lmhead_tp_enable(e) /\ prefix = "lm_head" THEN "lmhead"
  ELSE IF lmhead_tp_enable(e) /\ prefix = "embed_tokens" THEN "lmhead"
  ELSE "tp"

\* comm_group.world_size
WorldSizeOf(e, group) == IF group = "lmhead" THEN e.lmhead_world ELSE e.tp_world

\* ------------------------------------------------------ shard computation
\* vllm's pad_vocab_size: round up to a multiple of pad_to
pad_vocab_size(vocab_size, pad_to) ==
  ((vocab_size + pad_to - 1) \div pad_to) * pad_to

\* vllm's divide: exact division, an error otherwise
Divisible(numerator, denominator) == numerator % denominator = 0
divide(numerator, denominator) == numerator \div denominator

\* ShardIndexCalculator: the padded vocabulary is cut into world_size equal
\* contiguous blocks; inside the block of a rank the slots below
\* org_vocab_size_padded are original-vocabulary slots and the slots at or
\* above it are added-vocabulary slots, whose ids start at org_vocab_size.
get_indices(vocab_size_padded, org_vocab_size_padded, vocab_size, org_vocab_size, tp_rank, tp_size) ==
  LET width == divide(vocab_size_padded, tp_size)
      block_start == tp_rank * width
      block_end == block_start + width
      gap == org_vocab_size_padded - org_vocab_size
      padded_org_start == Min(block_start, org_vocab_size_padded)
      padded_org_end == Min(block_end, org_vocab_size_padded)
      padded_added_start == Max(block_start, org_vocab_size_padded)
      padded_added_end == Max(block_end, org_vocab_size_padded)
      org_start == Min(padded_org_start, org_vocab_size)
      org_end == Min(padded_org_end, org_vocab_size)
      added_start == Min(padded_added_start - gap, vocab_size)
      added_end == Min(padded_added_end - gap, vocab_size)
  IN [ padded_start_index |-> block_start,
       padded_end_index |-> block_end,
       org_vocab_start_index |-> org_start,
       org_vocab_end_index |-> org_end,
       added_vocab_start_index |-> added_start,
       added_vocab_end_index |-> added_end,
       num_org_vocab_padding |->
         (padded_org_end - padded_org_start) - (org_end - org_start),
       num_elements_padded |->
         (padded_org_end - padded_org_start)
           + (padded_added_end - padded_added_start) ]

\* ------------------------------------------------------------ the codec
\* A codec whose original-vocabulary test includes the end index.
get_masked_input_and_mask_le(v, org_vocab_start_index, org_vocab_end_index, num_org_vocab_padding, added_vocab_start_index, added_vocab_end_index) ==
  LET org_vocab_mask ==
        (v >= org_vocab_start_index) /\ (v <= org_vocab_end_index)
      added_vocab_mask ==
        (v >= added_vocab_start_index) /\ (v < added_vocab_end_index)
      added_offset ==
        added_vocab_start_index
          - (org_vocab_end_index - org_vocab_start_index)
          - num_org_vocab_padding
      valid_offset ==
        (org_vocab_start_index * B2I(org_vocab_mask))
          + (added_offset * B2I(added_vocab_mask))
      vocab_mask == org_vocab_mask \/ added_vocab_mask
  IN [ input_ |-> B2I(vocab_mask) * (v - valid_offset),
       mask |-> ~vocab_mask ]

\* A codec whose added-vocabulary offset leaves the padding of the original
\* range out.
get_masked_input_and_mask_nopad(v, org_vocab_start_index, org_vocab_end_index, num_org_vocab_padding, added_vocab_start_index, added_vocab_end_index) ==
  LET org_vocab_mask ==
        (v >= org_vocab_start_index) /\ (v < org_vocab_end_index)
  IN IF added_vocab_start_index = added_vocab_end_index
     THEN LET valid_offset == org_vocab_start_index * B2I(org_vocab_mask)
              vocab_mask == org_vocab_mask
          IN [ input_ |-> B2I(vocab_mask) * (v - valid_offset),
               mask |-> ~vocab_mask ]
     ELSE LET added_vocab_mask ==
                (v >= added_vocab_start_index) /\ (v < added_vocab_end_index)
              added_offset ==
                added_vocab_start_index
                  - (org_vocab_end_index - org_vocab_start_index)
              valid_offset ==
                (org_vocab_start_index * B2I(org_vocab_mask))
                  + (added_offset * B2I(added_vocab_mask))
              vocab_mask == org_vocab_mask \/ added_vocab_mask
          IN [ input_ |-> B2I(vocab_mask) * (v - valid_offset),
               mask |-> ~vocab_mask ]

\* A codec whose shortcut subtracts the end of the original range.
get_masked_input_and_mask_endoffset(v, org_vocab_start_index, org_vocab_end_index, num_org_vocab_padding, added_vocab_start_index, added_vocab_end_index) ==
  LET org_vocab_mask ==
        (v >= org_vocab_start_index) /\ (v < org_vocab_end_index)
  IN IF added_vocab_start_index = added_vocab_end_index
     THEN LET valid_offset == org_vocab_end_index * B2I(org_vocab_mask)
              vocab_mask == org_vocab_mask
          IN [ input_ |-> B2I(vocab_mask) * (v - valid_offset),
               mask |-> ~vocab_mask ]
     ELSE LET added_vocab_mask ==
                (v >= added_vocab_start_index) /\ (v < added_vocab_end_index)
              added_offset ==
                added_vocab_start_index
                  - (org_vocab_end_index - org_vocab_start_index)
                  - num_org_vocab_padding
              valid_offset ==
                (org_vocab_start_index * B2I(org_vocab_mask))
                  + (added_offset * B2I(added_vocab_mask))
              vocab_mask == org_vocab_mask \/ added_vocab_mask
          IN [ input_ |-> B2I(vocab_mask) * (v - valid_offset),
               mask |-> ~vocab_mask ]

\* A codec whose added-vocabulary offset is the start of the added range.
get_masked_input_and_mask_addedbase(v, org_vocab_start_index, org_vocab_end_index, num_org_vocab_padding, added_vocab_start_index, added_vocab_end_index) ==
  LET org_vocab_mask ==
        (v >= org_vocab_start_index) /\ (v < org_vocab_end_index)
  IN IF added_vocab_start_index = added_vocab_end_index
     THEN LET valid_offset == org_vocab_start_index * B2I(org_vocab_mask)
              vocab_mask == org_vocab_mask
          IN [ input_ |-> B2I(vocab_mask) * (v - valid_offset),
               mask |-> ~vocab_mask ]
     ELSE LET added_vocab_mask ==
                (v >= added_vocab_start_index) /\ (v < added_vocab_end_index)
              added_offset == added_vocab_start_index
              valid_offset ==
                (org_vocab_start_index * B2I(org_vocab_mask))
                  + (added_offset * B2I(added_vocab_mask))
              vocab_mask == org_vocab_mask \/ added_vocab_mask
          IN [ input_ |-> B2I(vocab_mask) * (v - valid_offset),
               mask |-> ~vocab_mask ]

\* get_masked_input_and_mask on one element v of input_ (the function is
\* pointwise).  Returns the rewritten element and the inverted mask.
get_masked_input_and_mask(v, org_vocab_start_index, org_vocab_end_index, num_org_vocab_padding, added_vocab_start_index, added_vocab_end_index) ==
  LET org_vocab_mask ==
        (v >= org_vocab_start_index) /\ (v < org_vocab_end_index)
  IN IF added_vocab_start_index = added_vocab_end_index
     THEN LET valid_offset == org_vocab_start_index * B2I(org_vocab_mask)
              vocab_mask == org_vocab_mask
          IN [ input_ |-> B2I(vocab_mask) * (v - valid_offset),
               mask |-> ~vocab_mask ]
     ELSE LET added_vocab_mask ==
                (v >= added_vocab_start_index) /\ (v < added_vocab_end_index)
              added_offset ==
                added_vocab_start_index
                  - (org_vocab_end_index - org_vocab_start_index)
                  - num_org_vocab_padding
              valid_offset ==
                (org_vocab_start_index * B2I(org_vocab_mask))
                  + (added_offset * B2I(added_vocab_mask))
              vocab_mask == org_vocab_mask \/ added_vocab_mask
          IN [ input_ |-> B2I(vocab_mask) * (v - valid_offset),
               mask |-> ~vocab_mask ]

\* The general branch of the codec (lines 53-60 between lines 46-47 and
\* 62-63), taken whatever the added range is.
general_branch(v, org_vocab_start_index, org_vocab_end_index, num_org_vocab_padding, added_vocab_start_index, added_vocab_end_index) ==
  LET org_vocab_mask ==
        (v >= org_vocab_start_index) /\ (v < org_vocab_end_index)
      added_vocab_mask ==
        (v >= added_vocab_start_index) /\ (v < added_vocab_end_index)
      added_offset ==
        added_vocab_start_index
          - (org_vocab_end_index - org_vocab_start_index)
          - num_org_vocab_padding
      valid_offset ==
        (org_vocab_start_index * B2I(org_vocab_mask))
          + (added_offset * B2I(added_vocab_mask))
      vocab_mask == org_vocab_mask \/ added_vocab_mask
  IN [ input_ |-> B2I(vocab_mask) * (v - valid_offset),
       mask |-> ~vocab_mask ]

\* The call of lines 195-200: the codec with the shard indices of a table.
MaskedInput(v, s) ==
  get_masked_input_and_mask(v, s.org_vocab_start_index,
                            s.org_vocab_end_index, s.num_org_vocab_padding,
                            s.added_vocab_start_index,
                            s.added_vocab_end_index)

\* ---------------------------------------------------------- construction
LayerTypes == {"AscendVocabParallelEmbedding", "AscendParallelLMHead"}

\* What quant_config.get_quant_method yields: quant_config None or a method
\* of None ("None": the unquantized method is used), a method with the
\* embedding operation, a method without it.
QuantMethods == {"None", "EmbedMethod", "LinearMethod"}

\* method_has_implemented_embedding(type(quant_method)), after lines 111-115
\* have replaced None by UnquantizedEmbeddingMethod
method_has_implemented_embedding(q) == q \in {"None", "EmbedMethod"}

\* Constructor arguments.  org_num_embeddings 0 stands for None (and for 0):
\* "org_num_embeddings or num_embeddings".
CtorArgs(V, P, D) ==
  { a \in [ layer_type : LayerTypes, num_embeddings : 1..V,
            embedding_dim : 1..D, org_num_embeddings : 0..V,
            padding_size : 1..P, quant : QuantMethods, prefix : Prefixes ] :
      a.org_num_embeddings <= a.num_embeddings }

\* lines 94-102
OrgVocabSize(a) ==
  IF a.org_num_embeddings # 0 THEN a.org_num_embeddings ELSE a.num_embeddings
OrgVocabSizePadded(a) == pad_vocab_size(OrgVocabSize(a), a.padding_size)
NumEmbeddingsPadded(a) ==
  pad_vocab_size(OrgVocabSizePadded(a) + (a.num_embeddings - OrgVocabSize(a)),
                 a.padding_size)

\* A constructor that passes rank 0 of a one-member group as the rank.
ShardIndicesOf_rank0(a, tp_rank, tp_size) ==
  get_indices(NumEmbeddingsPadded(a), OrgVocabSizePadded(a), a.num_embeddings,
              OrgVocabSize(a), 0, tp_size)

\* A constructor that shards the unpadded vocabulary.
ShardIndicesOf_unpadded(a, tp_rank, tp_size) ==
  get_indices(a.num_embeddings, OrgVocabSizePadded(a), a.num_embeddings,
              OrgVocabSize(a), tp_rank, tp_size)

\* lines 105-109: the call of _get_indices
ShardIndicesOf(a, tp_rank, tp_size) ==
  get_indices(NumEmbeddingsPadded(a), OrgVocabSizePadded(a), a.num_embeddings,
              OrgVocabSize(a), tp_rank, tp_size)

\* line 120: type(self) is VocabParallelEmbedding
is_embedding_layer(a) == a.layer_type = "VocabParallelEmbedding"

\* A constructor whose divisions round down instead of failing.
CtorError_floor(a, e, tp_rank) ==
  LET tp_size == WorldSizeOf(e, CommGroupOf(e, a.prefix))
  IN IF ~(OrgVocabSizePadded(a) <= NumEmbeddingsPadded(a))
       THEN "AssertionError"
     ELSE IF is_embedding_layer(a) /\ ~method_has_implemented_embedding(a.quant)
       THEN "NotImplementedError"
     ELSE IF ShardIndicesOf(a, tp_rank, tp_size).num_elements_padded
               # divide(NumEmbeddingsPadded(a), tp_size)
       THEN "ShardAssertionError"
     ELSE ""

\* A constructor without the exact division and without the assert on the
\* shard width.
CtorError_unchecked(a, e, tp_rank) ==
  IF ~(OrgVocabSizePadded(a) <= NumEmbeddingsPadded(a))
    THEN "AssertionError"
  ELSE IF is_embedding_layer(a) /\ ~method_has_implemented_embedding(a.quant)
    THEN "NotImplementedError"
  ELSE ""

\* The first failure of __init__ for these arguments on this rank, "" when
\* it returns: the assert of line 103, the exact division inside
\* _get_indices (line 105), the raise of line 124, the division of line 134
\* and the assert of line 136.
CtorError(a, e, tp_rank) ==
  LET tp_size == WorldSizeOf(e, CommGroupOf(e, a.prefix))
  IN IF ~(OrgVocabSizePadded(a) <= NumEmbeddingsPadded(a))
       THEN "AssertionError"
     ELSE IF ~Divisible(NumEmbeddingsPadded(a), tp_size)
       THEN "NotDivisible"
     ELSE IF is_embedding_layer(a) /\ ~method_has_implemented_embedding(a.quant)
       THEN "NotImplementedError"
     ELSE IF ShardIndicesOf(a, tp_rank, tp_size).num_elements_padded
               # divide(NumEmbeddingsPadded(a), tp_size)
       THEN "ShardAssertionError"
     ELSE ""

\* The attributes __init__ leaves on the table of rank tp_rank.
NewTable(a, e, tp_rank) ==
  LET group == CommGroupOf(e, a.prefix)
      tp_size == WorldSizeOf(e, group)
  IN [ layer_type |-> a.layer_type,
       comm_group |-> group,
       tp_size |-> tp_size,
       tp_rank |-> tp_rank,
       num_embeddings |-> a.num_embeddings,
       padding_size |-> a.padding_size,
       org_vocab_size |-> OrgVocabSize(a),
       org_vocab_size_padded |-> OrgVocabSizePadded(a),
       num_embeddings_padded |-> NumEmbeddingsPadded(a),
       shard_indices |-> ShardIndicesOf(a, tp_rank, tp_size),
       embedding_dim |-> a.embedding_dim,
       quant_method |-> a.quant,
       num_embeddings_per_partition |->
         divide(NumEmbeddingsPadded(a), tp_size) ]

\* ------------------------------------------------------------------ state
VARIABLES
  env,        \* the process groups
  ctor,       \* "none" | "ok" | the error __init__ raised
  ctor_args,  \* the arguments of the constructor call, <<>> before it
  tables,     \* rank -> table, the empty function unless ctor = "ok"
  rewritten,  \* Spec: <<v, rank -> codec result>> of the last rewrite
  step,       \* FwdSpec: the entry point the group is running, or "none"
  proc,       \* FwdSpec: rank -> the state of its call (see NewProc)
  lp,         \* LogitsSpec: the logits processor, <<>> before the step
  lproc       \* LogitsSpec: rank -> the state of its _get_logits call

vars == <<env, ctor, ctor_args, tables, rewritten, step, proc, lp, lproc>>

Ranks == DOMAIN tables

\* Every rank of the table's group runs __init__ with the same arguments
\* (no communication happens in it); a failure on any rank is fatal for
\* the group.
Construct(args) ==
  /\ ctor = "none"
  /\ LET tp_size == WorldSizeOf(env, CommGroupOf(env, args.prefix))
         errs == { CtorError(args, env, r) : r \in 0..(tp_size - 1) } \ {""}
     IN /\ ctor_args' = <<args>>
        /\ IF errs = {}
             THEN /\ ctor' = "ok"
                  /\ tables' = [r \in 0..(tp_size - 1) |-> NewTable(args, env, r)]
             ELSE /\ ctor' = CHOOSE x \in errs : TRUE
                  /\ tables' = tables
  /\ UNCHANGED <<env, rewritten, step, proc, lp, lproc>>

\* Ids the codec is applied to: negative, real, padding-gap and beyond.
TokenIds(t) == (-1)..(t.num_embeddings_padded + 1)

\* The codec applied to one id on every rank of the group.
Rewrite(v) ==
  /\ ctor = "ok"
  /\ rewritten' = <<v, [r \in Ranks |-> MaskedInput(v, tables[r].shard_indices)]>>
  /\ UNCHANGED <<env, ctor, ctor_args, tables, step, proc, lp, lproc>>

Init ==
  /\ env \in Envs(MaxWorld)
  /\ ctor = "none"
  /\ ctor_args = <<>>
  /\ tables = <<>>
  /\ rewritten = <<>>
  /\ step = "none"
  /\ proc = <<>>
  /\ lp = <<>>
  /\ lproc = <<>>

Next ==
  \/ ctor = "none" /\ \E a \in CtorArgs(MaxVocab, MaxPadding, 1) : Construct(a)
  \/ /\ ctor = "ok"
     /\ \E v \in TokenIds(tables[0]) : Rewrite(v)

Spec == Init /\ [][Next]_vars

\* ------------------------------------------- the worked configuration
\* The constructor and the codec on one configuration of real size: a
\* vocabulary of 50000 ids without added vocabulary, padding_size 64 and a
\* communication group of four ranks (the tensor-parallel group, or the
\* head group when the feature is on).
ExampleEnvs == { e \in Envs(4) : e.tp_world = 4 \/ e.lmhead_world = 4 }

ExampleArgs ==
  [ layer_type : LayerTypes, num_embeddings : {50000}, embedding_dim : {1},
    org_num_embeddings : {0, 50000}, padding_size : {64}, quant : {"None"},
    prefix : Prefixes ]

\* Ids within 20 of a block boundary of the table.
ExampleIds(t) ==
  UNION { ((r * t.num_embeddings_per_partition) - 20)
            ..((r * t.num_embeddings_per_partition) + 20) : r \in 0..t.tp_size }
    \cap TokenIds(t)

ExampleInit ==
  /\ env \in ExampleEnvs
  /\ ctor = "none"
  /\ ctor_args = <<>>
  /\ tables = <<>>
  /\ rewritten = <<>>
  /\ step = "none"
  /\ proc = <<>>
  /\ lp = <<>>
  /\ lproc = <<>>

ExampleNext ==
  \/ ctor = "none" /\ \E a \in ExampleArgs : Construct(a)
  \/ /\ ctor = "ok"
     /\ \E v \in ExampleIds(tables[0]) : Rewrite(v)

ExampleSpec == ExampleInit /\ [][ExampleNext]_vars

\* ---------------------------------------------------------------- weights
\* The embedding row of global token id v, and a zero row.
Row(v, dim) == [c \in 1..dim |-> v * dim + c]
ZeroRow(dim) == [c \in 1..dim |-> 0]

\* Row `slot` of the weight shard of table t, as the loader leaves it: each
\* id's row at the slot the table's own lookup addresses it by.  A table
\* that masks (tp_size > 1) holds its original ids first, then
\* num_org_vocab_padding unused slots, then its added ids; a one-member
\* table looks ids up directly.  Unused slots are zero.
WeightRow(t, slot) ==
  LET s == t.shard_indices
      num_org == s.org_vocab_end_index - s.org_vocab_start_index
      num_added == s.added_vocab_end_index - s.added_vocab_start_index
      added_base == num_org + s.num_org_vocab_padding
  IN IF t.tp_size = 1
       THEN IF slot < t.num_embeddings
              THEN Row(slot, t.embedding_dim) ELSE ZeroRow(t.embedding_dim)
     ELSE IF slot < num_org
       THEN Row(s.org_vocab_start_index + slot, t.embedding_dim)
     ELSE IF slot >= added_base /\ slot < added_base + num_added
       THEN Row(s.added_vocab_start_index + (slot - added_base),
                t.embedding_dim)
     ELSE ZeroRow(t.embedding_dim)

\* The weight has num_embeddings_per_partition rows (lines 145-151).
InBounds(t, idx) == 0 <= idx /\ idx < t.num_embeddings_per_partition

\* quant_method.embedding(self, ids): one weight row per id, and `garbage`
\* for an id outside the weight.
embedding(t, ids, garbage) ==
  [i \in 1..Len(ids) |->
     IF InBounds(t, ids[i]) THEN WeightRow(t, ids[i]) ELSE garbage]

\* ---------------------------------------------------------------- forward
\* A _forward_normal that leaves the rows of masked ids as looked up.
forward_normal_local_nofill(t, input_) ==
  LET codec == [i \in 1..Len(input_) |-> MaskedInput(input_[i], t.shard_indices)]
      masked_input ==
        IF t.tp_size > 1
          THEN [i \in 1..Len(input_) |-> codec[i].input_] ELSE input_
      input_mask ==
        IF t.tp_size > 1 THEN [i \in 1..Len(input_) |-> codec[i].mask] ELSE <<>>
  IN [ masked_input |-> masked_input,
       input_mask |-> input_mask,
       output_parallel |->
         embedding(t, masked_input, ZeroRow(t.embedding_dim)) ]

\* A _forward_normal that masks whatever the group size.
forward_normal_local_mask(t, input_) ==
  LET codec == [i \in 1..Len(input_) |-> MaskedInput(input_[i], t.shard_indices)]
      masked_input == [i \in 1..Len(input_) |-> codec[i].input_]
      input_mask == [i \in 1..Len(input_) |-> codec[i].mask]
      looked == embedding(t, masked_input, ZeroRow(t.embedding_dim))
  IN [ masked_input |-> masked_input,
       input_mask |-> input_mask,
       output_parallel |->
         [i \in 1..Len(input_) |->
            IF input_mask[i] THEN ZeroRow(t.embedding_dim) ELSE looked[i]] ]

\* _forward_normal, lines 193-207: mask, look up, zero the masked rows.
forward_normal_local(t, input_) ==
  LET codec == [i \in 1..Len(input_) |-> MaskedInput(input_[i], t.shard_indices)]
      masked_input ==
        IF t.tp_size > 1
          THEN [i \in 1..Len(input_) |-> codec[i].input_] ELSE input_
      input_mask ==
        IF t.tp_size > 1 THEN [i \in 1..Len(input_) |-> codec[i].mask] ELSE <<>>
      looked == embedding(t, masked_input, ZeroRow(t.embedding_dim))
  IN [ masked_input |-> masked_input,
       input_mask |-> input_mask,
       output_parallel |->
         IF t.tp_size > 1
           THEN [i \in 1..Len(input_) |->
                   IF input_mask[i] THEN ZeroRow(t.embedding_dim) ELSE looked[i]]
           ELSE looked ]

\* A forward that dispatches on the kind of the group, not on its size.
forward_path_group(t) ==
  IF t.comm_group = "lmhead" THEN "embed_tp" ELSE "normal"

\* forward, lines 153-157: the path taken
forward_path(t) == IF t.tp_size > 1 THEN "embed_tp" ELSE "normal"

\* The state of one rank's call.
NewProc(ids) ==
  [ pc |-> "ready", path |-> "none", input_ |-> ids,
    masked_input |-> <<>>, input_mask |-> <<>>,
    lmhead_group_batch_size |-> <<>>, complete_input |-> <<>>,
    output |-> <<>>, input_splits |-> <<>>, output_splits |-> <<>>,
    recv_size |-> 0, calls |-> <<>>, result |-> <<>> ]

\* The ids of a step: a combined batch and the rank that owns each of its
\* ids, in rank order.
Monotone(owner) ==
  \A i \in DOMAIN owner : \A j \in DOMAIN owner : i <= j => owner[i] <= owner[j]
BatchStart(owner, r) == Cardinality({ i \in DOMAIN owner : owner[i] < r })
BatchSize(owner, r) == Cardinality({ i \in DOMAIN owner : owner[i] = r })
BatchOf(ids, owner, r) ==
  SubSeq(ids, BatchStart(owner, r) + 1,
         BatchStart(owner, r) + BatchSize(owner, r))

\* A step begins: every rank of the group is handed its batch of ids of
\* [0, num_embeddings) and calls the entry point.  The ranks of a
\* tensor-parallel group get the same batch; the ranks of the head group
\* (data-parallel replicas) get their own.
BeginStep(entry, ids, owner) ==
  /\ ctor = "ok"
  /\ step = "none"
  /\ \A i \in DOMAIN ids : ids[i] < tables[0].num_embeddings
  /\ Monotone(owner)
  /\ tables[0].comm_group = "tp" => \A i \in DOMAIN owner : owner[i] = 0
  /\ step' = entry
  /\ proc' = [r \in Ranks |->
                NewProc(IF tables[0].comm_group = "tp"
                          THEN ids ELSE BatchOf(ids, owner, r))]
  /\ UNCHANGED <<env, ctor, ctor_args, tables, rewritten, lp, lproc>>

\* forward with tp_size > 1, lines 160-168: the batch sizes of the head
\* group from the forward context, then the all-gather on the head group.
\* Without the head group (the feature is off) the call fails.
EmbedTpGather(r) ==
  /\ step = "forward"
  /\ r \in Ranks
  /\ proc[r].pc = "ready"
  /\ forward_path(tables[r]) = "embed_tp"
  /\ IF lmhead_tp_enable(env)
       THEN proc' = [proc EXCEPT
              ![r].path = "embed_tp",
              ![r].lmhead_group_batch_size =
                 [x \in 1..env.lmhead_world |-> Len(proc[x - 1].input_)],
              ![r].calls = Append(@, <<"all_gather", "lmhead">>),
              ![r].pc = "in_all_gather"]
       ELSE proc' = [proc EXCEPT ![r].path = "embed_tp", ![r].pc = "error"]
  /\ UNCHANGED <<env, ctor, ctor_args, tables, rewritten, step, lp, lproc>>

\* The all-gather completes once every member has entered it (lines
\* 167-169): the batches concatenated in rank order.
AllGatherComplete ==
  /\ step = "forward"
  /\ \A r \in Ranks : proc[r].pc = "in_all_gather"
  /\ proc' = [r \in Ranks |->
       [proc[r] EXCEPT
          !.complete_input =
             Flatten([x \in 1..Cardinality(Ranks) |-> proc[x - 1].input_]),
          !.pc = "gathered"]]
  /\ UNCHANGED <<env, ctor, ctor_args, tables, rewritten, step, lp, lproc>>

\* What a lookup of an id outside the weight can do: fail, or read
\* something else.
OutcomesOf(t, ids) ==
  IF \A i \in DOMAIN ids : InBounds(t, ids[i])
    THEN {"in_bounds"} ELSE {"fault", "zero", "row0"}

\* lines 172-185: the unmasked lookup of the combined batch, the split
\* sizes, and the all-to-all on the head group.
EmbedTpLookup(r, outcome) ==
  /\ step = "forward"
  /\ r \in Ranks
  /\ proc[r].pc = "gathered"
  /\ outcome \in OutcomesOf(tables[r], proc[r].complete_input)
  /\ LET t == tables[r]
         local_batch_size == Len(proc[r].input_)
         garbage == IF outcome = "row0" THEN WeightRow(t, 0)
                    ELSE ZeroRow(t.embedding_dim)
     IN IF outcome = "fault"
          THEN proc' = [proc EXCEPT ![r].pc = "error"]
          ELSE proc' = [proc EXCEPT
                 ![r].output = embedding(t, proc[r].complete_input, garbage),
                 ![r].input_splits = proc[r].lmhead_group_batch_size,
                 ![r].output_splits =
                    [x \in DOMAIN proc[r].lmhead_group_batch_size |->
                       local_batch_size * t.num_embeddings_per_partition],
                 ![r].recv_size =
                    local_batch_size
                      * (t.num_embeddings_per_partition * t.tp_size),
                 ![r].calls = Append(@, <<"all_to_all", "lmhead">>),
                 ![r].pc = "in_all_to_all"]
  /\ UNCHANGED <<env, ctor, ctor_args, tables, rewritten, step, lp, lproc>>

\* all_to_all_single splits its input along dimension 0: rank i sends to
\* rank j input_splits[j] rows of its lookup output, and rank j has room
\* for output_splits[i] elements of its 1-D result from rank i.
RowWidth(rows) == IF rows = <<>> THEN 0 ELSE Len(rows[1])
SentElements(i, j) == proc[i].input_splits[j + 1] * RowWidth(proc[i].output)
ExpectedElements(j, i) == proc[j].output_splits[i + 1]
SplitsAgree ==
  \A i \in Ranks : \A j \in Ranks : SentElements(i, j) = ExpectedElements(j, i)

\* The rows rank s sends to rank r, flattened.
SentTo(s, r) ==
  LET start == SumSeq(SubSeq(proc[s].input_splits, 1, r))
  IN Flatten(SubSeq(proc[s].output, start + 1,
                    start + proc[s].input_splits[r + 1]))

\* lines 187-188: view(tp_size, local_batch_size, per_partition), permute
\* (1, 0, 2), reshape(local_batch_size, -1)
reshape_result(buffer, tp_size, local_batch_size, per_partition) ==
  [b \in 1..local_batch_size |->
     [k \in 1..(tp_size * per_partition) |->
        buffer[(((k - 1) \div per_partition) * local_batch_size + (b - 1))
                 * per_partition + ((k - 1) % per_partition) + 1]]]

\* The all-to-all completes once every member has entered it.  Members
\* whose split sizes disagree bring the group down.
AllToAllComplete ==
  /\ step = "forward"
  /\ \A r \in Ranks : proc[r].pc = "in_all_to_all"
  /\ IF SplitsAgree
       THEN proc' = [r \in Ranks |->
              [proc[r] EXCEPT
                 !.result =
                    reshape_result(
                      Flatten([x \in 1..Cardinality(Ranks) |-> SentTo(x - 1, r)]),
                      tables[r].tp_size, Len(proc[r].input_),
                      tables[r].num_embeddings_per_partition),
                 !.pc = "done"]]
       ELSE proc' = [r \in Ranks |-> [proc[r] EXCEPT !.pc = "error"]]
  /\ UNCHANGED <<env, ctor, ctor_args, tables, rewritten, step, lp, lproc>>

\* _forward_normal up to its all-reduce (lines 193-209), entered from
\* forward when tp_size = 1 or called directly.
NormalLocal(r) ==
  /\ step # "none"
  /\ r \in Ranks
  /\ proc[r].pc = "ready"
  /\ \/ step = "forward" /\ forward_path(tables[r]) = "normal"
     \/ step = "_forward_normal"
  /\ LET loc == forward_normal_local(tables[r], proc[r].input_)
     IN proc' = [proc EXCEPT
          ![r].path = "normal",
          ![r].masked_input = loc.masked_input,
          ![r].input_mask = loc.input_mask,
          ![r].output = loc.output_parallel,
          ![r].calls = Append(@, <<"all_reduce", "tp">>),
          ![r].pc = "in_all_reduce"]
  /\ UNCHANGED <<env, ctor, ctor_args, tables, rewritten, step, lp, lproc>>

\* The tensor-parallel groups the ranks of the table belong to: the table's
\* own group, or one group per rank when the table is sharded over the head
\* group (data-parallel replicas, tensor-parallel size 1).
TpGroups ==
  IF tables[0].comm_group = "tp" THEN {Ranks} ELSE { {r} : r \in Ranks }

\* tensor_model_parallel_all_reduce (line 209) completes once every member
\* of the tensor-parallel group has entered it: the elementwise sum.
AllReduceComplete(g) ==
  /\ step # "none"
  /\ g \in TpGroups
  /\ \A r \in g : proc[r].pc = "in_all_reduce"
  /\ LET any == CHOOSE r \in g : TRUE
         Sum(i, c) ==
           SumSeq([x \in 1..Cardinality(Ranks) |->
                     IF (x - 1) \in g THEN proc[x - 1].output[i][c] ELSE 0])
     IN proc' = [r \in Ranks |->
          IF r \in g
            THEN [proc[r] EXCEPT
                    !.result =
                       [i \in 1..Len(proc[any].output) |->
                          [c \in 1..RowWidth(proc[any].output) |-> Sum(i, c)]],
                    !.pc = "done"]
            ELSE proc[r]]
  /\ UNCHANGED <<env, ctor, ctor_args, tables, rewritten, step, lp, lproc>>

\* The constructor calls of FwdSpec: an embedding table with the default
\* lookup method (layer type and method play no part in forward).
FwdCtorArgs ==
  { a \in CtorArgs(FwdMaxVocab, FwdMaxPadding, FwdMaxDim) :
      /\ a.layer_type = "AscendVocabParallelEmbedding"
      /\ a.quant = "None"
      /\ a.org_num_embeddings # 0
      /\ a.prefix \in {"embed_tokens", "other"} }

FwdInit ==
  /\ env \in Envs(FwdMaxWorld)
  /\ ctor = "none"
  /\ ctor_args = <<>>
  /\ tables = <<>>
  /\ rewritten = <<>>
  /\ step = "none"
  /\ proc = <<>>
  /\ lp = <<>>
  /\ lproc = <<>>

FwdNext ==
  \/ ctor = "none" /\ \E a \in FwdCtorArgs : Construct(a)
  \/ /\ ctor = "ok"
     /\ step = "none"
     /\ \E entry \in {"forward", "_forward_normal"} :
          \E k \in 0..FwdMaxTokens :
            \E ids \in [1..k -> 0..(tables[0].num_embeddings - 1)] :
              \E owner \in [1..k -> Ranks] :
                BeginStep(entry, ids, owner)
  \/ \E r \in 0..(FwdMaxWorld - 1) : EmbedTpGather(r)
  \/ AllGatherComplete
  \/ \E r \in 0..(FwdMaxWorld - 1) :
       \E outcome \in {"in_bounds", "fault", "zero", "row0"} :
         EmbedTpLookup(r, outcome)
  \/ AllToAllComplete
  \/ \E r \in 0..(FwdMaxWorld - 1) : NormalLocal(r)
  \/ step # "none" /\ \E g \in TpGroups : AllReduceComplete(g)

FwdSpec == FwdInit /\ [][FwdNext]_vars

\* ----------------------------------------------------------------- logits
\* A tensor of logits: its rows and its last-dimension size (a tensor of no
\* rows still has one).  A cell <<h, p>> is the logit of hidden state h for
\* padded vocabulary slot p.
Tensor(rows, width) == [rows |-> rows, width |-> width]

\* Logits left untrimmed.
trim_padding_none(logits, org_vocab_size) == logits

\* lines 281-282 and 298-299: logits[..., :self.org_vocab_size]
trim_padding(logits, org_vocab_size) ==
  Tensor([i \in 1..Len(logits.rows) |->
            SubSeq(logits.rows[i], 1, Min(org_vocab_size, logits.width))],
         Min(org_vocab_size, logits.width))

\* _get_logits, lines 259-264: the path taken
get_logits_path(e) == IF lmhead_tp_enable(e) THEN "lmheadtp" ELSE "normal"

\* lm_head.quant_method.apply(lm_head, hidden_states): one logit per hidden
\* state and slot of the shard of the head.
apply(t, hidden_states) ==
  Tensor([i \in 1..Len(hidden_states) |->
            [c \in 1..t.num_embeddings_per_partition |->
               <<hidden_states[i],
                 t.shard_indices.padded_start_index + (c - 1)>>]],
         t.num_embeddings_per_partition)

\* The processes of a _get_logits step: the head group when the feature is
\* on, the tensor-parallel group otherwise.
LRanks == DOMAIN lproc
LWorld(e) == IF lmhead_tp_enable(e) THEN e.lmhead_world ELSE e.tp_world

\* The LM head of process r: its rank's shard when the head is sharded over
\* the group of the step, the one shard of its own one-member group
\* otherwise.
LmHeadOf(r) == IF r \in Ranks THEN tables[r] ELSE tables[0]

\* Columns of the per-rank tensors side by side, in rank order.
RECURSIVE ConcatColumns(_, _)
ConcatColumns(parts, n) ==
  IF parts = <<>> THEN Tensor([i \in 1..n |-> <<>>], 0)
  ELSE LET rest == ConcatColumns(Tail(parts), n)
       IN Tensor([i \in 1..n |-> Head(parts).rows[i] \o rest.rows[i]],
                 Head(parts).width + rest.width)

NewLProc(hidden_states) ==
  [ pc |-> "ready", path |-> "none", hidden_states |-> hidden_states,
    gathered_hidden_states |-> <<>>, local_logits |-> Tensor(<<>>, 0),
    logits |-> Tensor(<<>>, 0), is_none |-> FALSE, calls |-> <<>> ]

\* A _get_logits step begins: a processor with its org_vocab_size and its
\* gather mode, and the hidden states of every process.  The ranks of a
\* tensor-parallel group hold the same hidden states.
LogitsBegin(org_vocab_size, use_all_gather, sizes) ==
  /\ ctor = "ok"
  /\ lp = <<>>
  /\ tables[0].layer_type = "AscendParallelLMHead"
  /\ Len(sizes) = LWorld(env)
  /\ ~lmhead_tp_enable(env) => \A i \in DOMAIN sizes : sizes[i] = sizes[1]
  /\ lp' = [org_vocab_size |-> org_vocab_size,
            use_all_gather |-> use_all_gather]
  /\ lproc' = [r \in 0..(LWorld(env) - 1) |->
                 NewLProc([t \in 1..sizes[r + 1] |->
                             <<IF lmhead_tp_enable(env) THEN r ELSE 0, t>>])]
  /\ UNCHANGED <<env, ctor, ctor_args, tables, rewritten, step, proc>>

\* _get_logits_lmheadtp, lines 273-274: the all-gather of the hidden states
LmheadtpGather(r) ==
  /\ lp # <<>>
  /\ r \in LRanks
  /\ lproc[r].pc = "ready"
  /\ get_logits_path(env) = "lmheadtp"
  /\ lproc' = [lproc EXCEPT
       ![r].path = "lmheadtp",
       ![r].calls = Append(@, <<"all_gather", "lmhead">>),
       ![r].pc = "in_all_gather"]
  /\ UNCHANGED <<env, ctor, ctor_args, tables, rewritten, step, proc, lp>>

\* The group's all_gather(dim=0) takes tensors of one shape; members whose
\* shapes differ bring the group down.
LAllGatherComplete ==
  /\ lp # <<>>
  /\ \A r \in LRanks : lproc[r].pc = "in_all_gather"
  /\ IF \A r \in LRanks :
          Len(lproc[r].hidden_states) = Len(lproc[0].hidden_states)
       THEN lproc' = [r \in LRanks |->
              [lproc[r] EXCEPT
                 !.gathered_hidden_states =
                    Flatten([x \in 1..Cardinality(LRanks) |->
                               lproc[x - 1].hidden_states]),
                 !.pc = "gathered"]]
       ELSE lproc' = [r \in LRanks |-> [lproc[r] EXCEPT !.pc = "error"]]
  /\ UNCHANGED <<env, ctor, ctor_args, tables, rewritten, step, proc, lp>>

\* lines 275-279: the local projection of the gathered hidden states, then
\* the all-to-all
LmheadtpApply(r) ==
  /\ lp # <<>>
  /\ r \in LRanks
  /\ lproc[r].pc = "gathered"
  /\ lproc' = [lproc EXCEPT
       ![r].local_logits = apply(LmHeadOf(r), lproc[r].gathered_hidden_states),
       ![r].calls = Append(@, <<"all_to_all", "lmhead">>),
       ![r].pc = "in_all_to_all"]
  /\ UNCHANGED <<env, ctor, ctor_args, tables, rewritten, step, proc, lp>>

\* The group's all_to_all: the rows are split evenly over the members in
\* rank order, and each member gets its rows from every member, side by
\* side in rank order.  Lines 281-283 then trim and return.
LAllToAllComplete ==
  /\ lp # <<>>
  /\ \A r \in LRanks : lproc[r].pc = "in_all_to_all"
  /\ LET n == Len(lproc[0].hidden_states)
         chunk(s, r) ==
           Tensor(SubSeq(lproc[s].local_logits.rows, r * n + 1, (r + 1) * n),
                  lproc[s].local_logits.width)
     IN lproc' = [r \in LRanks |->
          [lproc[r] EXCEPT
             !.logits =
                trim_padding(
                  ConcatColumns([x \in 1..Cardinality(LRanks) |->
                                   chunk(x - 1, r)], n),
                  lp.org_vocab_size),
             !.pc = "done"]]
  /\ UNCHANGED <<env, ctor, ctor_args, tables, rewritten, step, proc, lp>>

\* _get_logits_normal, lines 291-295: the local projection, then the gather
\* of the logits over the tensor-parallel group
NormalApply(r) ==
  /\ lp # <<>>
  /\ r \in LRanks
  /\ lproc[r].pc = "ready"
  /\ get_logits_path(env) = "normal"
  /\ lproc' = [lproc EXCEPT
       ![r].path = "normal",
       ![r].local_logits = apply(LmHeadOf(r), lproc[r].hidden_states),
       ![r].calls =
          Append(@, <<IF lp.use_all_gather THEN "all_gather" ELSE "gather",
                      "tp">>),
       ![r].pc = "in_gather"]
  /\ UNCHANGED <<env, ctor, ctor_args, tables, rewritten, step, proc, lp>>

\* _gather_logits: every member gets the column blocks side by side in rank
\* order (all-gather), or rank 0 gets them and the others get None
\* (gather).  Lines 298-301 then trim and return.
LGatherComplete ==
  /\ lp # <<>>
  /\ \A r \in LRanks : lproc[r].pc = "in_gather"
  /\ LET all == ConcatColumns([x \in 1..Cardinality(LRanks) |->
                                 lproc[x - 1].local_logits],
                              Len(lproc[0].hidden_states))
     IN lproc' = [r \in LRanks |->
          IF lp.use_all_gather \/ r = 0
            THEN [lproc[r] EXCEPT
                    !.logits = trim_padding(all, lp.org_vocab_size),
                    !.pc = "done"]
            ELSE [lproc[r] EXCEPT !.is_none = TRUE, !.pc = "done"]]
  /\ UNCHANGED <<env, ctor, ctor_args, tables, rewritten, step, proc, lp>>

\* The constructor calls of LogitsSpec: an LM head with the default method.
LogitsCtorArgs ==
  { a \in CtorArgs(FwdMaxVocab, FwdMaxPadding, 1) :
      /\ a.layer_type = "AscendParallelLMHead"
      /\ a.quant = "None"
      /\ a.prefix \in {"lm_head", "other"} }

LogitsNext ==
  \/ ctor = "none" /\ \E a \in LogitsCtorArgs : Construct(a)
  \/ /\ ctor = "ok"
     /\ lp = <<>>
     /\ \E org_vocab_size \in 1..FwdMaxVocab :
          \E use_all_gather \in BOOLEAN :
            \E sizes \in [1..LWorld(env) -> 0..FwdMaxTokens] :
              LogitsBegin(org_vocab_size, use_all_gather, sizes)
  \/ \E r \in 0..(FwdMaxWorld - 1) : LmheadtpGather(r)
  \/ LAllGatherComplete
  \/ \E r \in 0..(FwdMaxWorld - 1) : LmheadtpApply(r)
  \/ LAllToAllComplete
  \/ \E r \in 0..(FwdMaxWorld - 1) : NormalApply(r)
  \/ LGatherComplete

LogitsSpec == FwdInit /\ [][LogitsNext]_vars

\* ================================================================ claims
InOrgRange(v, s) == s.org_vocab_start_index <= v /\ v < s.org_vocab_end_index
InAddedRange(v, s) ==
  s.added_vocab_start_index <= v /\ v < s.added_vocab_end_index

\* C1: once construction has succeeded on the group, the blocks of ranks
\* 0..world_size-1 tile [0, num_embeddings_padded): the first block starts
\* at 0, each block starts where the previous one ends, the last one ends at
\* num_embeddings_padded, every block is num_elements_padded wide and every
\* padded slot lies in the block of exactly one rank.
C1_BlocksTilePaddedVocab ==
  ctor = "ok" =>
    LET n == Cardinality(Ranks)
        blk(r) == tables[r].shard_indices
    IN /\ blk(0).padded_start_index = 0
       /\ blk(n - 1).padded_end_index = tables[0].num_embeddings_padded
       /\ \A r \in Ranks :
            /\ blk(r).padded_end_index - blk(r).padded_start_index
                 = blk(r).num_elements_padded
            /\ r > 0 => blk(r).padded_start_index = blk(r - 1).padded_end_index
       /\ \A p \in 0..(tables[0].num_embeddings_padded - 1) :
            Cardinality({ r \in Ranks :
                            /\ blk(r).padded_start_index <= p
                            /\ p < blk(r).padded_end_index }) = 1

\* C1 witness: three ranks, added vocabulary and a padding gap.
C1_Witness ==
  /\ ctor = "ok"
  /\ Cardinality(Ranks) = 3
  /\ tables[0].num_embeddings > tables[0].org_vocab_size
  /\ tables[0].org_vocab_size_padded > tables[0].org_vocab_size

\* C2: the codec marks an id valid on a rank exactly when the id lies in
\* the rank's original or added range, and every id of [0, num_embeddings)
\* is marked valid by exactly one rank of the group.
C2_ValidIffOwnedExactlyOnce ==
  rewritten # <<>> =>
    LET v == rewritten[1]
        res == rewritten[2]
    IN /\ \A r \in Ranks :
            (~res[r].mask) <=>
              (InOrgRange(v, tables[r].shard_indices)
                 \/ InAddedRange(v, tables[r].shard_indices))
       /\ (0 <= v /\ v < tables[0].num_embeddings) =>
            Cardinality({ r \in Ranks : ~res[r].mask }) = 1

\* C2 witness: an added-vocabulary id rewritten on a group of two or more
\* ranks, valid on a rank other than rank 0.
C2_Witness ==
  /\ rewritten # <<>>
  /\ Cardinality(Ranks) >= 2
  /\ rewritten[1] >= tables[0].org_vocab_size
  /\ rewritten[1] < tables[0].num_embeddings
  /\ \E r \in Ranks : r > 0 /\ ~rewritten[2][r].mask

\* The single-rank reference: the rows the table built from the same
\* arguments on a one-member group returns for the ids.
SingleRankEnv == [lmhead_tp |-> FALSE, tp_world |-> 1, lmhead_world |-> 1]
Reference(ids) ==
  forward_normal_local(NewTable(ctor_args[1], SingleRankEnv, 0), ids)
    .output_parallel

AllDone == step # "none" /\ \A r \in Ranks : proc[r].pc = "done"

\* C3: when every rank of a tensor-parallel group of more than one member
\* has run the standard path (_forward_normal) on a batch of ids of
\* [0, num_embeddings), the all-reduced result on every rank is the rows
\* the single-rank lookup returns for the batch.
C3_StandardPathEqualsSingleRank ==
  (AllDone /\ step = "_forward_normal" /\ tables[0].comm_group = "tp"
     /\ tables[0].tp_size > 1) =>
    \A r \in Ranks : proc[r].result = Reference(proc[r].input_)

\* C3 witness: a finished standard-path step of two or more ranks on a
\* batch holding an added-vocabulary id that rank 0 does not own, behind a
\* padding gap.
C3_Witness ==
  /\ AllDone
  /\ step = "_forward_normal"
  /\ tables[0].comm_group = "tp"
  /\ tables[0].tp_size > 1
  /\ tables[0].org_vocab_size_padded > tables[0].org_vocab_size
  /\ \E i \in DOMAIN proc[0].input_ :
       /\ proc[0].input_[i] >= tables[0].org_vocab_size
       /\ proc[0].input_mask[i]

\* C4: when the head-group path (_forward_embed_tp) has finished on every
\* rank, the result of rank r has one row per input id of r, and row t is
\* the full embedding row the single-rank lookup returns for r's t-th id.
C4_HeadGroupRoundTrip ==
  (AllDone /\ step = "forward") =>
    \A r \in Ranks :
      proc[r].path = "embed_tp" =>
        /\ Len(proc[r].result) = Len(proc[r].input_)
        /\ proc[r].result = Reference(proc[r].input_)

\* C5: a table whose communication group is the tensor-parallel group with
\* more than one member runs the standard path when forward is called.
C5_TpGroupTakesStandardPath ==
  step = "forward" =>
    \A r \in Ranks :
      (tables[r].comm_group = "tp" /\ tables[r].tp_size > 1
         /\ proc[r].path # "none") => proc[r].path = "normal"

\* C6 as stated: on a one-member group forward looks the unmodified ids up
\* directly and issues no masking step and no collective call at all.
C6_NoCollectiveAtAll ==
  step = "forward" =>
    \A r \in Ranks :
      (tables[r].tp_size = 1 /\ proc[r].pc = "done") =>
        /\ proc[r].path = "normal"
        /\ proc[r].masked_input = proc[r].input_
        /\ proc[r].input_mask = <<>>
        /\ proc[r].calls = <<>>

\* C6 amended: on a one-member group forward looks the unmodified ids up
\* directly with no masking step, no all-gather and no all-to-all; the one
\* collective call it makes is the trailing all-reduce on the
\* tensor-parallel group, and it returns the looked-up rows.
C6_DirectLookupThenAllReduce ==
  step = "forward" =>
    \A r \in Ranks :
      tables[r].tp_size = 1 =>
        /\ proc[r].input_mask = <<>>
        /\ \A i \in DOMAIN proc[r].calls :
             proc[r].calls[i] = <<"all_reduce", "tp">>
        /\ proc[r].pc # "error"
        /\ proc[r].pc \in {"in_all_reduce", "done"} =>
             /\ proc[r].path = "normal"
             /\ proc[r].masked_input = proc[r].input_
             /\ proc[r].calls = << <<"all_reduce", "tp">> >>
        /\ proc[r].pc = "done" =>
             proc[r].result =
               [i \in 1..Len(proc[r].input_) |->
                  WeightRow(tables[r], proc[r].input_[i])]

\* C6 witness: forward has returned on a one-member group for a batch of
\* two ids.
C6_Witness ==
  /\ step = "forward"
  /\ tables[0].tp_size = 1
  /\ proc[0].pc = "done"
  /\ Len(proc[0].input_) = 2

\* C7: when every member of the head group has entered the all-to-all, the
\* number of elements rank i sends to rank j equals the number rank j
\* expects from rank i, and the receive buffer holds the sum of the output
\* splits.
C7_SplitSizesAgree ==
  (step = "forward" /\ \A r \in Ranks : proc[r].pc = "in_all_to_all") =>
    /\ SplitsAgree
    /\ \A r \in Ranks : proc[r].recv_size = SumSeq(proc[r].output_splits)

\* C8: no table that is strictly an embedding (not a head) is constructed
\* with a lookup method that lacks the embedding operation.
C8_NoEmbeddingTableWithoutCapability ==
  ctor = "ok" =>
    \A r \in Ranks :
      tables[r].layer_type = "AscendVocabParallelEmbedding" =>
        method_has_implemented_embedding(tables[r].quant_method)

\* C9: a constructor call whose padded vocabulary is not divisible by the
\* world size, or whose shard width differs from the quotient, has failed
\* and left no table.
C9_IndivisibleFails ==
  ctor_args # <<>> =>
    LET a == ctor_args[1]
        tp_size == WorldSizeOf(env, CommGroupOf(env, a.prefix))
    IN ( \/ NumEmbeddingsPadded(a) % tp_size # 0
         \/ \E r \in 0..(tp_size - 1) :
              ShardIndicesOf(a, r, tp_size).num_elements_padded * tp_size
                # NumEmbeddingsPadded(a) )
         => (ctor \notin {"none", "ok"} /\ tables = <<>>)

\* C9 witness: a failed construction on a world size that does not divide
\* the padded vocabulary.
C9_Witness ==
  /\ ctor_args # <<>>
  /\ ctor = "NotDivisible"
  /\ tables = <<>>
  /\ NumEmbeddingsPadded(ctor_args[1])
       % WorldSizeOf(env, CommGroupOf(env, ctor_args[1].prefix)) # 0

\* C10: whenever _get_logits has returned a tensor (not None) for a head
\* whose padded vocabulary is at least the processor's org_vocab_size, the
\* last dimension of the tensor is exactly org_vocab_size, on either path.
C10_LogitsTrimmedToOrgVocab ==
  lp # <<>> =>
    \A r \in LRanks :
      (lproc[r].pc = "done" /\ ~lproc[r].is_none
         /\ tables[0].num_embeddings_padded >= lp.org_vocab_size) =>
        /\ lproc[r].logits.width = lp.org_vocab_size
        /\ \A i \in DOMAIN lproc[r].logits.rows :
             Len(lproc[r].logits.rows[i]) = lp.org_vocab_size

\* C10 witness: the head-group path has returned logits with rows on a
\* group of two ranks for a head whose padded vocabulary is larger than
\* org_vocab_size.
C10_Witness ==
  /\ lp # <<>>
  /\ Cardinality(LRanks) >= 2
  /\ lproc[1].pc = "done"
  /\ lproc[1].path = "lmheadtp"
  /\ lproc[1].logits.rows # <<>>
  /\ tables[0].num_embeddings_padded > lp.org_vocab_size

\* C10 witness of the standard path is covered by the same formula; this
\* predicate names a state of it.
C10_StandardPathReached ==
  /\ lp # <<>>
  /\ lproc[0].pc = "done"
  /\ lproc[0].path = "normal"
  /\ lproc[0].logits.rows # <<>>
  /\ tables[0].num_embeddings_padded > lp.org_vocab_size

\* The group of the constructed table has four ranks.
FourRanks ==
  /\ ctor_args # <<>>
  /\ WorldSizeOf(env, CommGroupOf(env, ctor_args[1].prefix)) = 4

\* C11 as stated: for num_embeddings = org_vocab_size = 50000,
\* padding_size 64 and four ranks the padded vocabulary is 50048 and each
\* rank owns exactly 12800 local slots, with num_org_vocab_padding = 0 on
\* every rank whose block lies entirely within the original vocabulary.
C11_Owns12800Slots ==
  FourRanks =>
    /\ ctor = "ok"
    /\ tables[0].num_embeddings_padded = 50048
    /\ \A r \in Ranks :
         /\ tables[r].shard_indices.num_elements_padded = 12800
         /\ tables[r].num_embeddings_per_partition = 12800
         /\ tables[r].shard_indices.padded_end_index
                <= tables[r].org_vocab_size
              => tables[r].shard_indices.num_org_vocab_padding = 0

\* C11 (amended): for num_embeddings = org_vocab_size = 50000,
\* padding_size 64 and four ranks construction succeeds, the padded
\* vocabulary is 50048 and each rank owns exactly 12512 = 50048 / 4 local
\* slots, with num_org_vocab_padding = 0 on every rank whose block lies
\* entirely within the original vocabulary.
C11_Owns12512Slots ==
  FourRanks =>
    /\ ctor = "ok"
    /\ tables[0].num_embeddings_padded = 50048
    /\ \A r \in Ranks :
         /\ tables[r].shard_indices.num_elements_padded = 12512
         /\ tables[r].num_embeddings_per_partition = 12512
         /\ tables[r].shard_indices.padded_end_index
                <= tables[r].org_vocab_size
              => tables[r].shard_indices.num_org_vocab_padding = 0

\* C11 witness: the four-rank table is built, ranks 0..2 lie within the
\* original vocabulary, rank 3 holds the 48 padding slots, and the codec
\* has been applied to an id.
C11_Witness ==
  /\ FourRanks
  /\ ctor = "ok"
  /\ Cardinality(Ranks) = 4
  /\ \A r \in 0..2 : tables[r].shard_indices.padded_end_index
                       <= tables[r].org_vocab_size
  /\ tables[3].shard_indices.num_org_vocab_padding = 48
  /\ rewritten # <<>>

\* forward on a rank has taken the direct path so far: no gather, no
\* all-to-all, no failure, and once the lookup is done it was made by
\* _forward_normal on the unmodified ids.
TakesDirectPath(r) ==
  /\ proc[r].path # "embed_tp"
  /\ proc[r].pc # "error"
  /\ \A i \in DOMAIN proc[r].calls :
       proc[r].calls[i][1] \notin {"all_gather", "all_to_all"}
  /\ proc[r].pc \in {"in_all_reduce", "done"} =>
       /\ proc[r].path = "normal"
       /\ proc[r].masked_input = proc[r].input_

\* C12 as stated: on a one-member group, for every (num_embeddings,
\* org_vocab_size), org_vocab_start_index = 0, org_vocab_end_index =
\* org_vocab_size, added_vocab_start_index = added_vocab_end_index =
\* org_vocab_size, and forward takes the direct path.
C12_AddedRangeEmpty ==
  (ctor = "ok" /\ tables[0].tp_size = 1) =>
    LET s == tables[0].shard_indices
    IN /\ s.org_vocab_start_index = 0
       /\ s.org_vocab_end_index = tables[0].org_vocab_size
       /\ s.added_vocab_start_index = tables[0].org_vocab_size
       /\ s.added_vocab_end_index = tables[0].org_vocab_size
       /\ step = "forward" => TakesDirectPath(0)

\* C12 (amended): on a one-member group, for every (num_embeddings,
\* org_vocab_size), org_vocab_start_index = 0, org_vocab_end_index =
\* org_vocab_size, added_vocab_start_index = org_vocab_size,
\* added_vocab_end_index = num_embeddings (equal to org_vocab_size exactly
\* when there is no added vocabulary), and forward takes the direct path.
C12_SingleRankIndices ==
  (ctor = "ok" /\ tables[0].tp_size = 1) =>
    LET s == tables[0].shard_indices
    IN /\ s.org_vocab_start_index = 0
       /\ s.org_vocab_end_index = tables[0].org_vocab_size
       /\ s.added_vocab_start_index = tables[0].org_vocab_size
       /\ s.added_vocab_end_index = tables[0].num_embeddings
       /\ step = "forward" => TakesDirectPath(0)

\* C12 witness: forward has returned on a one-member group whose table has
\* added vocabulary and a padding gap, for a batch with an added id.
C12_Witness ==
  /\ step = "forward"
  /\ tables[0].tp_size = 1
  /\ tables[0].num_embeddings > tables[0].org_vocab_size
  /\ tables[0].org_vocab_size_padded > tables[0].org_vocab_size
  /\ proc[0].pc = "done"
  /\ \E i \in DOMAIN proc[0].input_ :
       proc[0].input_[i] >= tables[0].org_vocab_size

\* C13: for every id v, negative, in the padding gap or at or beyond
\* num_embeddings included, and the shard indices of every rank, the local
\* id the codec returns lies in [0, num_elements_padded): it is 0 and
\* masked when v is in neither range of the rank, v - org_vocab_start_index
\* when v is in the original range, and v - added_vocab_start_index +
\* (org_vocab_end_index - org_vocab_start_index) + num_org_vocab_padding
\* when v is in the added range.
C13_LocalIdInShard ==
  rewritten # <<>> =>
    \A r \in Ranks :
      LET v == rewritten[1]
          s == tables[r].shard_indices
          local == rewritten[2][r].input_
      IN /\ 0 <= local
         /\ local < s.num_elements_padded
         /\ ~(InOrgRange(v, s) \/ InAddedRange(v, s)) =>
              local = 0 /\ rewritten[2][r].mask
         /\ InOrgRange(v, s) => local = v - s.org_vocab_start_index
         /\ InAddedRange(v, s) =>
              local = (v - s.added_vocab_start_index)
                        + (s.org_vocab_end_index - s.org_vocab_start_index)
                        + s.num_org_vocab_padding

\* C13 witness: an added-vocabulary id rewritten on a group of two or more
\* ranks, on a rank that holds original ids and padding below it.
C13_Witness ==
  /\ rewritten # <<>>
  /\ Cardinality(Ranks) >= 2
  /\ \E r \in Ranks :
       /\ InAddedRange(rewritten[1], tables[r].shard_indices)
       /\ tables[r].shard_indices.num_org_vocab_padding > 0
       /\ tables[r].shard_indices.org_vocab_end_index
            > tables[r].shard_indices.org_vocab_start_index

\* C13 witness for the ids outside the vocabulary: a negative id rewritten
\* on a group of two or more ranks.
C13_NegativeIdRewritten ==
  /\ rewritten # <<>>
  /\ Cardinality(Ranks) >= 2
  /\ rewritten[1] < 0

\* C14: in the head-group path no masking is needed: on every rank, every
\* id of the gathered batch (ids of [0, num_embeddings)) that
\* _forward_embed_tp passes to the local lookup lies in
\* [0, num_embeddings_per_partition), so the lookup never reads outside the
\* rank's weight.
C14_GatheredIdsInLocalWeight ==
  step = "forward" =>
    \A r \in Ranks :
      proc[r].pc \in {"gathered", "in_all_to_all", "done"} =>
        \A i \in DOMAIN proc[r].complete_input :
          InBounds(tables[r], proc[r].complete_input[i])

\* C15: on every rank of a successfully constructed table
\* num_elements_padded is the same and equals num_embeddings_padded /
\* tp_size exactly (it is num_embeddings_per_partition), org_vocab_size_padded
\* <= num_embeddings_padded, and the shard widths of the ranks sum to
\* num_embeddings_padded.
C15_EqualShardWidths ==
  ctor = "ok" =>
    LET n == Cardinality(Ranks)
        width(r) == tables[r].shard_indices.num_elements_padded
    IN /\ \A r \in Ranks :
            /\ width(r) = width(0)
            /\ width(r) * tables[r].tp_size = tables[r].num_embeddings_padded
            /\ width(r) = tables[r].num_embeddings_per_partition
            /\ tables[r].tp_size = n
            /\ tables[r].org_vocab_size_padded <= tables[r].num_embeddings_padded
       /\ SumSeq([x \in 1..n |-> width(x - 1)]) = tables[0].num_embeddings_padded

\* C15 witness: a table on three ranks whose padded vocabulary is larger
\* than the vocabulary and whose shards are two or more slots wide.
C15_Witness ==
  /\ ctor = "ok"
  /\ Cardinality(Ranks) = 3
  /\ tables[0].num_embeddings_padded > tables[0].num_embeddings
  /\ tables[0].shard_indices.num_elements_padded >= 2

\* The collective calls of _forward_embed_tp in program order.
EmbedTpCalls == << <<"all_gather", "lmhead">>, <<"all_to_all", "lmhead">> >>

\* C16: in a forward step in which every member of the head group calls
\* forward, each member issues one all-gather and then one all-to-all on
\* the head group, with the local lookup between them, every member issues
\* the same sequence, and no call fails or is left waiting for a member
\* that failed, so that every forward call returns.
C16_HeadGroupForwardReturns ==
  (step = "forward" /\ lmhead_tp_enable(env)
     /\ tables[0].comm_group = "lmhead" /\ tables[0].tp_size > 1) =>
    \A r \in Ranks :
      /\ proc[r].pc # "error"
      /\ proc[r].pc = "ready" => proc[r].calls = <<>>
      /\ proc[r].pc \in {"in_all_gather", "gathered"} =>
           proc[r].calls = SubSeq(EmbedTpCalls, 1, 1)
      /\ proc[r].pc \in {"in_all_to_all", "done"} =>
           proc[r].calls = EmbedTpCalls
      /\ proc[r].pc = "in_all_to_all" =>
           \A q \in Ranks : proc[q].pc \in {"gathered", "in_all_to_all"}

\* The logits of one hidden state over the column blocks of the heads of
\* the processes, side by side in rank order and trimmed to org_vocab_size.
ExpectedLogitsRow(hidden) ==
  LET full ==
        Flatten([x \in 1..Cardinality(LRanks) |->
                   [c \in 1..LmHeadOf(x - 1).num_embeddings_per_partition |->
                      <<hidden,
                        LmHeadOf(x - 1).shard_indices.padded_start_index
                          + (c - 1)>>]])
  IN SubSeq(full, 1, Min(lp.org_vocab_size, Len(full)))

\* The rows rank r holds once its head-group call has returned are the
\* logits of its own hidden states, in order.
OwnLogitsReturned(r) ==
  lproc[r].pc = "done" =>
    /\ Len(lproc[r].logits.rows) = Len(lproc[r].hidden_states)
    /\ \A t \in DOMAIN lproc[r].logits.rows :
         lproc[r].logits.rows[t] = ExpectedLogitsRow(lproc[r].hidden_states[t])

\* C17: on the head-group logits path (all-gather of the hidden states,
\* local projection, all-to-all, trim) the call of every rank r completes
\* and returns exactly as many rows as r's own hidden-state input, row t
\* holding the logits of r's t-th hidden state with the per-rank column
\* blocks side by side in rank order, for every combination of per-rank
\* batch sizes.
C17_LogitsRoundTripAnyBatchSizes ==
  (lp # <<>> /\ get_logits_path(env) = "lmheadtp") =>
    \A r \in LRanks :
      /\ lproc[r].pc # "error"
      /\ OwnLogitsReturned(r)

\* C17 restricted to equal per-rank batch sizes, the case the collectives
\* called at lines 273 and 279 without sizes support.
C17_LogitsRoundTripEqualBatchSizes ==
  (lp # <<>> /\ get_logits_path(env) = "lmheadtp"
     /\ \A r \in LRanks :
          Len(lproc[r].hidden_states) = Len(lproc[0].hidden_states)) =>
    \A r \in LRanks :
      /\ lproc[r].pc # "error"
      /\ OwnLogitsReturned(r)

\* C18: the added-vocabulary shortcut is a pure optimization: for every id
\* v and every shard with added_vocab_start_index = added_vocab_end_index,
\* the (local id, invalid mask) pair the codec returns through the shortcut
\* equals the pair the general branch yields for the same arguments.
C18_ShortcutEqualsGeneralBranch ==
  rewritten # <<>> =>
    \A r \in Ranks :
      LET s == tables[r].shard_indices
      IN s.added_vocab_start_index = s.added_vocab_end_index =>
           rewritten[2][r] =
             general_branch(rewritten[1], s.org_vocab_start_index,
                            s.org_vocab_end_index, s.num_org_vocab_padding,
                            s.added_vocab_start_index,
                            s.added_vocab_end_index)

\* C18 witness: on a group of two or more ranks the shortcut has rewritten
\* an id that is valid on a rank whose original range does not start at 0
\* and whose added range is empty.
C18_Witness ==
  /\ rewritten # <<>>
  /\ Cardinality(Ranks) >= 2
  /\ \E r \in Ranks :
       /\ tables[r].shard_indices.added_vocab_start_index
            = tables[r].shard_indices.added_vocab_end_index
       /\ tables[r].shard_indices.org_vocab_start_index > 0
       /\ InOrgRange(rewritten[1], tables[r].shard_indices)
       /\ ~rewritten[2][r].mask

\* C19: every collective call a table issues during forward runs on the
\* communication group from which the table took tp_size, tp_rank and its
\* shard indices; a table never shards by one group and communicates over
\* another.
C19_CollectivesOnShardingGroup ==
  step = "forward" =>
    \A r \in Ranks :
      \A i \in DOMAIN proc[r].calls :
        proc[r].calls[i][2] = tables[r].comm_group

\* C20: on any single rank the codec is injective on the ids valid on that
\* rank: no other valid id gets the local id of a valid id; ids of the
\* original range map into [0, org_vocab_end_index - org_vocab_start_index)
\* and ids of the added range map at or above (org_vocab_end_index -
\* org_vocab_start_index) + num_org_vocab_padding, so no valid id lands in
\* a padding slot.
C20_InjectiveOnValidIds ==
  rewritten # <<>> =>
    \A r \in Ranks :
      LET v == rewritten[1]
          s == tables[r].shard_indices
          local == rewritten[2][r].input_
          org_len == s.org_vocab_end_index - s.org_vocab_start_index
      IN /\ InOrgRange(v, s) => (0 <= local /\ local < org_len)
         /\ InAddedRange(v, s) =>
              /\ local >= org_len + s.num_org_vocab_padding
              /\ local < s.num_elements_padded
         /\ (InOrgRange(v, s) \/ InAddedRange(v, s)) =>
              \A w \in TokenIds(tables[r]) :
                (w # v /\ (InOrgRange(w, s) \/ InAddedRange(w, s))) =>
                  MaskedInput(w, s).input_ # local

\* C20 witness: an original-range id has been rewritten on a rank that
\* holds original ids, padding slots and added ids.
C20_Witness ==
  /\ rewritten # <<>>
  /\ \E r \in Ranks :
       /\ InOrgRange(rewritten[1], tables[r].shard_indices)
       /\ tables[r].shard_indices.num_org_vocab_padding > 0
       /\ tables[r].shard_indices.added_vocab_end_index
            > tables[r].shard_indices.added_vocab_start_index

====
